---- MODULE Spec2Model ----
(***************************************************************************)
(* psbmon (src/main.go): poll psbdmp.cc on a ticker, record every paste id *)
(* in the sqlite table `pastes` (paste_ID UNIQUE) and POST each newly      *)
(* recorded id to DG_HOST/event.                                           *)
(*                                                                         *)
(* The model follows main() and the functions it calls one statement group *)
(* at a time.  Every call that can fail (http, sqlite, env) takes its      *)
(* outcome from the environment with \E.                                   *)
(***************************************************************************)
EXTENDS Integers, Sequences, FiniteSets, TLC

(* ------------------------------ bounds -------------------------------- *)

\* longest inner array the upstream returns in the model
MaxBatch == 2
\* the per-id counter of send invocations saturates here
SendCap == 2

(* ------------------------- program constants -------------------------- *)

\* for retries < 3
MaxRetries == 3
\* res.StatusCode == 502
BadGateway == 502
\* any status that is not 502 leaves the retry loop
StatusOK == 200

\* paste ids the upstream can report
Ids == {"a", "b"}

\* err.Error() values main() and getDaily() tell apart
ErrNil == "nil"
ErrUnique == "UNIQUE constraint failed: pastes.paste_ID"
ErrIO == "disk I/O error"
ErrNet == "dial tcp: connection refused"
ErrRedirect == "stopped after 10 redirects"
ErrRead == "unexpected EOF"
ErrJSON == "json: cannot unmarshal"

(* ------------------------------ helpers ------------------------------- *)

Range(s) == {s[i] : i \in 1..Len(s)}

SeqsUpTo(S, n) == UNION {[1..k -> S] : k \in 0..n}

NoDup(s) == \A i, j \in 1..Len(s) : s[i] = s[j] => i = j

Inc(n) == IF n < SendCap THEN n + 1 ELSE n

(* ------------------------- upstream documents ------------------------- *)

\* one JSON object of the inner array; "tags" may be absent
JObjects ==
  {[id |-> i, tags |-> "leak", date |-> 1] : i \in Ids}
    \cup {[id |-> "a", date |-> 2]}

JNull == [t |-> "null"]
JObj == [t |-> "obj"]
JGarbage == [t |-> "garbage"]
JArr(v) == [t |-> "arr", v |-> v]

\* what may stand as an element of the outer array
JInners ==
  {JArr(s) : s \in SeqsUpTo(JObjects, MaxBatch)} \cup {JNull, JObj}

\* a second element of the outer array, when there is one
JExtras == {JArr(<<>>), JArr(<<[id |-> "b", tags |-> "leak", date |-> 1]>>), JObj}

\* response bodies: not JSON, null, an object, or an outer array
Bodies ==
  {JGarbage, JNull, JObj, JArr(<<>>)}
    \cup {JArr(<<i>>) : i \in JInners}
    \cup {JArr(<<i, x>>) : i \in JInners, x \in JExtras}

NoBody == [t |-> "unread"]

(* ------------------------ json.Unmarshal, unwrap ---------------------- *)

\* encoding/json fills an ID from one object: an absent key leaves the zero value
decodeID(o) ==
  [ID |-> o.id, Tags |-> IF "tags" \in DOMAIN o THEN o.tags ELSE "", Date |-> o.date]

\* one element of the outer array decoded into []ID (null gives a nil slice)
decodeInner(i) ==
  IF i.t = "arr" THEN [k \in 1..Len(i.v) |-> decodeID(i.v[k])] ELSE <<>>

\* json.Unmarshal(body, &tempSlice) with tempSlice [][]ID
Unmarshal(b) ==
  [err |-> IF \/ b.t \in {"garbage", "obj"}
              \/ b.t = "arr" /\ \E k \in 1..Len(b.v) : b.v[k].t = "obj"
           THEN ErrJSON ELSE ErrNil,
   tempSlice |-> IF b.t = "arr" THEN [k \in 1..Len(b.v) |-> decodeInner(b.v[k])]
                 ELSE <<>>]

\* for i := range tempSlice[0] { p.Data = append(p.Data, tempSlice[0][i]) }
RECURSIVE appendFrom(_, _, _)
appendFrom(data, inner, i) ==
  IF i > Len(inner) THEN data ELSE appendFrom(Append(data, inner[i]), inner, i + 1)

\* the copy loop starting one element late
unwrap_SkipFirst(tempSlice) == [Data |-> appendFrom(<<>>, tempSlice[1], 2)]

\* p = &Pastes{} filled from tempSlice[0]
unwrap(tempSlice) == [Data |-> appendFrom(<<>>, tempSlice[1], 1)]

NilPastes == [nil |-> TRUE]
EmptyPastes == [Data |-> <<>>]
NilRes == [nil |-> TRUE]
Response(code, closed) == [StatusCode |-> code, closed |-> closed]

(* ------------------------------ ledger -------------------------------- *)

AddFaults == {"none", "prepare", "begin", "exec", "commit"}

\* addID written as INSERT OR REPLACE: a present row is deleted and added anew
addID_ReplaceOnDuplicate(db, pasteID, fault) ==
  IF fault \in {"prepare", "begin", "exec"} THEN [db |-> db, err |-> ErrIO]
  ELSE IF fault = "commit" THEN [db |-> db, err |-> ErrNil]
  ELSE [db |-> Append(SelectSeq(db, LAMBDA y : y # pasteID), pasteID), err |-> ErrNil]

\* addID on a table created without UNIQUE: every insert adds a row
addID_NoUnique(db, pasteID, fault) ==
  IF fault \in {"prepare", "begin", "exec"} THEN [db |-> db, err |-> ErrIO]
  ELSE IF fault = "commit" THEN [db |-> db, err |-> ErrNil]
  ELSE [db |-> Append(db, pasteID), err |-> ErrNil]

\* addID: the rows after the call and the error it returns.  The UNIQUE
\* constraint of makeTables rejects a paste_ID that is already a row; the
\* result of tx.Commit() is dropped, so a failed commit returns nil.
addID(db, pasteID, fault) ==
  IF fault \in {"prepare", "begin", "exec"} THEN [db |-> db, err |-> ErrIO]
  ELSE IF pasteID \in Range(db) THEN [db |-> db, err |-> ErrUnique]
  ELSE IF fault = "commit" THEN [db |-> db, err |-> ErrNil]
  ELSE [db |-> Append(db, pasteID), err |-> ErrNil]

\* checkID reporting ok only for an id that is a row
checkID_FoundOnly(db, id, fault) ==
  IF fault THEN [ok |-> FALSE, err |-> ErrIO]
  ELSE [ok |-> id \in Range(db), err |-> ErrNil]

\* checkID: sql.ErrNoRows is not an error and both a found and a missing row
\* return (true, nil); only a storage fault returns (false, err)
checkID(db, id, fault) ==
  IF fault THEN [ok |-> FALSE, err |-> ErrIO] ELSE [ok |-> TRUE, err |-> ErrNil]

(* ------------------------------ getDaily ------------------------------ *)

\* what one client.Do(req) can come back with: a transport failure (nil
\* response), a failed redirect policy (response with a closed body and an
\* error), a 502, or any other status
DoOutcomes == {"neterr", "redirect", "s502", "other"}

\* one pass of the retry loop body
attempt(n, o) ==
  CASE o = "neterr"   -> [retries |-> n + 1, res |-> NilRes, err |-> ErrNet, brk |-> FALSE]
    [] o = "redirect" -> [retries |-> n + 1, res |-> Response(302, TRUE), err |-> ErrRedirect,
                          brk |-> FALSE]
    [] o = "s502"     -> [retries |-> n + 1, res |-> Response(BadGateway, FALSE), err |-> ErrNil,
                          brk |-> FALSE]
    [] OTHER          -> [retries |-> n, res |-> Response(StatusOK, FALSE), err |-> ErrNil,
                          brk |-> TRUE]

\* a loop condition that lets a pass start after the third failure
loopAgain_Inclusive(n) == n <= MaxRetries

\* the loop condition, tested before every pass
loopAgain(n) == n < MaxRetries

\* getDaily going on after a failed json.Unmarshal as if the day were empty
afterLoop_DecodeErrorIsEmpty(r, b, readFails) ==
  IF r = NilRes
    THEN [panic |-> TRUE, p |-> NilPastes, err |-> ErrNil, body |-> NoBody]
  ELSE IF r.closed \/ readFails
    THEN [panic |-> FALSE, p |-> NilPastes, err |-> ErrRead, body |-> NoBody]
  ELSE IF Unmarshal(b).err # ErrNil
    THEN [panic |-> FALSE, p |-> EmptyPastes, err |-> ErrNil, body |-> b]
  ELSE IF Len(Unmarshal(b).tempSlice) = 0
    THEN [panic |-> TRUE, p |-> NilPastes, err |-> ErrNil, body |-> b]
  ELSE [panic |-> FALSE, p |-> unwrap(Unmarshal(b).tempSlice), err |-> ErrNil, body |-> b]

\* getDaily treating a day without pastes as a malformed response
afterLoop_EmptyDayIsError(r, b, readFails) ==
  IF r = NilRes
    THEN [panic |-> TRUE, p |-> NilPastes, err |-> ErrNil, body |-> NoBody]
  ELSE IF r.closed \/ readFails
    THEN [panic |-> FALSE, p |-> NilPastes, err |-> ErrRead, body |-> NoBody]
  ELSE IF Unmarshal(b).err # ErrNil
    THEN [panic |-> FALSE, p |-> EmptyPastes, err |-> Unmarshal(b).err, body |-> b]
  ELSE IF Len(Unmarshal(b).tempSlice) = 0
    THEN [panic |-> TRUE, p |-> NilPastes, err |-> ErrNil, body |-> b]
  ELSE IF Len(Unmarshal(b).tempSlice[1]) = 0
    THEN [panic |-> FALSE, p |-> EmptyPastes, err |-> ErrJSON, body |-> b]
  ELSE [panic |-> FALSE, p |-> unwrap(Unmarshal(b).tempSlice), err |-> ErrNil, body |-> b]

\* the rest of getDaily once the loop is left: defer res.Body.Close(),
\* ioutil.ReadAll, json.Unmarshal, tempSlice[0].  b is what the body stream
\* yields, readFails whether reading it fails.
afterLoop(r, b, readFails) ==
  IF r = NilRes
    THEN [panic |-> TRUE, p |-> NilPastes, err |-> ErrNil, body |-> NoBody]
  ELSE IF r.closed \/ readFails
    THEN [panic |-> FALSE, p |-> NilPastes, err |-> ErrRead, body |-> NoBody]
  ELSE IF Unmarshal(b).err # ErrNil
    THEN [panic |-> FALSE, p |-> EmptyPastes, err |-> Unmarshal(b).err, body |-> b]
  ELSE IF Len(Unmarshal(b).tempSlice) = 0
    THEN [panic |-> TRUE, p |-> NilPastes, err |-> ErrNil, body |-> b]
  ELSE [panic |-> FALSE, p |-> unwrap(Unmarshal(b).tempSlice), err |-> ErrNil, body |-> b]

(* -------------------------------- send -------------------------------- *)

Hosts == {"", "http://dg", "127.0.0.1:8080"}

\* http.NewRequest parses host + "/event"; post drops its error and uses req
urlParses(host) == host = "http://dg"

SendOutcomes == {"ok", "neterr"}

\* (id *ID).send: nil, the transport error of client.Do, or a nil-request panic
send(host, o) ==
  IF ~urlParses(host) THEN [panic |-> TRUE, err |-> ErrNil]
  ELSE [panic |-> FALSE, err |-> IF o = "ok" THEN ErrNil ELSE ErrNet]

(* ------------------------------- state -------------------------------- *)

VARIABLES
  pc,          \* where main() stands
  ledger,      \* rows of table pastes, in rowid order (paste_ID of each)
  hostString,  \* the global hostString
  retries,     \* getDaily: retries
  res,         \* getDaily: res
  err,         \* the err of the function that runs
  ok,          \* main: ok of the last checkID
  body,        \* getDaily: body
  p,           \* getDaily's result p, then main's p
  idx,         \* main: position of the range loop in p.Data (1-based)
  reqs,        \* history: client.Do calls of the current getDaily call
  sends,       \* history: id -> number of send calls (saturating)
  delivered,   \* history: ids whose send returned nil
  sendFailed,  \* history: ids whose send failed after their insert was stored
  addFailed,   \* history: ids whose addID returned a hard error while they were
               \* no row, and that were not handed to send since
  log          \* history: the ledger and forwarder calls of the current cycle

vars ==
  <<pc, ledger, hostString, retries, res, err, ok, body, p, idx, reqs, sends, delivered,
    sendFailed, addFailed, log>>

fetchVars == <<retries, res, body, reqs>>
history == <<sends, delivered, sendFailed>>

\* the id the range loop stands on
cur == p.Data[idx].ID

\* ledgers an earlier run can have left in ./pastes.db
PriorLedgers == {s \in SeqsUpTo(Ids, Cardinality(Ids)) : NoDup(s)}

Init ==
  /\ pc = "open"
  /\ ledger \in PriorLedgers
  /\ hostString = ""
  /\ retries = 0
  /\ res = NilRes
  /\ err = ErrNil
  /\ ok = FALSE
  /\ body = NoBody
  /\ p = NilPastes
  /\ idx = 0
  /\ reqs = 0
  /\ sends = [x \in Ids |-> 0]
  /\ delivered = {}
  /\ sendFailed = {}
  /\ addFailed = {}
  /\ log = <<>>

(* ------------------------------ startup ------------------------------- *)

\* db, err := open(); log.Fatalf on error
Open ==
  /\ pc = "open"
  /\ \E fails \in BOOLEAN :
       /\ pc' = IF fails THEN "fatal" ELSE "makeTables"
       /\ err' = IF fails THEN ErrIO ELSE ErrNil
  /\ UNCHANGED <<ledger, hostString, p, idx, log>>
  /\ UNCHANGED fetchVars
  /\ UNCHANGED history
  /\ UNCHANGED <<ok, addFailed>>

MakeTablesFaults == {"none", "prepare", "begin", "exec"}

\* where makeTables leaves the process: a failed Prepare or Begin is only
\* logged and the nil stmt / nil tx is used next (panic); a failed Exec is
\* log.Fatalf; CREATE TABLE IF NOT EXISTS keeps the rows of an earlier run
makeTables(fault) ==
  CASE fault = "none" -> "getenv"
    [] fault = "exec" -> "fatal"
    [] OTHER          -> "panicMakeTables"

MakeTables ==
  /\ pc = "makeTables"
  /\ \E f \in MakeTablesFaults :
       /\ pc' = makeTables(f)
       /\ err' = IF f = "none" THEN ErrNil ELSE ErrIO
  /\ UNCHANGED <<ledger, hostString, p, idx, log>>
  /\ UNCHANGED fetchVars
  /\ UNCHANGED history
  /\ UNCHANGED <<ok, addFailed>>

\* hostString = os.Getenv("DG_HOST"); log.Fatal when empty; then the ticker
GetEnv ==
  /\ pc = "getenv"
  /\ \E h \in Hosts :
       /\ hostString' = h
       /\ pc' = IF h = "" THEN "fatal" ELSE "wait"
  /\ UNCHANGED <<ledger, err, p, idx, log>>
  /\ UNCHANGED fetchVars
  /\ UNCHANGED history
  /\ UNCHANGED <<ok, addFailed>>

(* ------------------------------ one cycle ----------------------------- *)

\* case <-ticker: getDaily() is entered with fresh locals
Tick ==
  /\ pc = "wait"
  /\ pc' = "fetch"
  /\ retries' = 0
  /\ res' = NilRes
  /\ err' = ErrNil
  /\ ok' = FALSE
  /\ body' = NoBody
  /\ p' = NilPastes
  /\ idx' = 0
  /\ reqs' = 0
  /\ log' = <<>>
  /\ UNCHANGED <<ledger, hostString>>
  /\ UNCHANGED history
  /\ UNCHANGED addFailed

\* one pass of for retries < 3 { res, err = client.Do(req) ... }
Attempt ==
  /\ pc = "fetch"
  /\ loopAgain(retries)
  /\ \E o \in DoOutcomes :
       LET a == attempt(retries, o) IN
         /\ retries' = a.retries
         /\ res' = a.res
         /\ err' = a.err
         /\ pc' = IF a.brk THEN "read" ELSE "fetch"
  /\ reqs' = reqs + 1
  /\ UNCHANGED <<ledger, hostString, body, p, idx, log>>
  /\ UNCHANGED history
  /\ UNCHANGED <<ok, addFailed>>

\* the loop condition fails: fall out of the loop with the last res
LoopExit ==
  /\ pc = "fetch"
  /\ ~loopAgain(retries)
  /\ pc' = "read"
  /\ UNCHANGED <<ledger, hostString, retries, res, err, body, p, idx, reqs, log>>
  /\ UNCHANGED history
  /\ UNCHANGED <<ok, addFailed>>

\* read and decode the response; getDaily returns (p, err) or panics
FinishGetDaily ==
  /\ pc = "read"
  /\ \E b \in Bodies, readFails \in BOOLEAN :
       LET r == afterLoop(res, b, readFails) IN
         /\ pc' = IF r.panic THEN "panicGetDaily" ELSE "returned"
         /\ p' = r.p
         /\ err' = r.err
         /\ body' = r.body
  /\ UNCHANGED <<ledger, hostString, retries, res, idx, reqs, log>>
  /\ UNCHANGED history
  /\ UNCHANGED <<ok, addFailed>>

\* if err != nil { break }: leave the select, back to the ticker
afterFetch(e, data) ==
  IF e # ErrNil THEN "wait" ELSE IF Len(data) = 0 THEN "wait" ELSE "check"

\* main takes getDaily's result; getDaily's locals are gone
Dispatch ==
  /\ pc = "returned"
  /\ pc' = afterFetch(err, IF p = NilPastes THEN <<>> ELSE p.Data)
  /\ idx' = IF pc' = "check" THEN 1 ELSE 0
  /\ retries' = 0
  /\ res' = NilRes
  /\ body' = NoBody
  /\ reqs' = 0
  /\ UNCHANGED <<ledger, hostString, err, p, log>>
  /\ UNCHANGED history
  /\ UNCHANGED <<ok, addFailed>>

\* a logged call: position and id of the candidate, the call, what the
\* environment did to it (env), the error it returned and whether the id
\* was a row of the ledger when the call was made
Event(op, env, e) ==
  [i |-> idx, id |-> cur, op |-> op, env |-> env, err |-> e,
   had |-> cur \in Range(ledger)]

\* a loop that takes the same element again instead of the next one
Advance_SameElement ==
  IF idx < Len(p.Data)
    THEN pc' = "check" /\ idx' = idx
    ELSE pc' = "wait" /\ idx' = idx

\* the range loop moves to the next element or ends
Advance ==
  IF idx < Len(p.Data)
    THEN pc' = "check" /\ idx' = idx + 1
    ELSE pc' = "wait" /\ idx' = idx

\* if err != nil || !ok { break }: break leaves the range loop
afterCheck(r) == IF r.err # ErrNil \/ ~r.ok THEN "break" ELSE "add"

CheckID ==
  /\ pc = "check"
  /\ \E fault \in BOOLEAN :
       LET r == checkID(ledger, cur, fault) IN
         /\ ok' = r.ok
         /\ err' = r.err
         /\ log' = Append(log, Event("checkID", IF fault THEN "fault" ELSE "none", r.err))
         /\ IF afterCheck(r) = "break"
              THEN pc' = "wait" /\ idx' = idx
              ELSE pc' = "add" /\ idx' = idx
  /\ UNCHANGED <<ledger, hostString, p>>
  /\ UNCHANGED fetchVars
  /\ UNCHANGED history
  /\ UNCHANGED addFailed

\* only the duplicate branch continues: a hard insert error falls through to
\* id.send
afterAdd_SendOnHardError(e) == IF e = ErrUnique THEN "continue" ELSE "send"

\* break where the code has continue: an insert error ends the batch
afterAdd_BreakOnError(e) == IF e # ErrNil THEN "break" ELSE "send"

\* the duplicate branch left out: a UNIQUE failure falls through to id.send
afterAdd_SendOnDuplicate(e) ==
  IF e # ErrNil /\ e # ErrUnique THEN "continue" ELSE "send"

\* both error branches continue; only a nil error reaches id.send
afterAdd(e) ==
  IF e # ErrNil /\ e # ErrUnique THEN "continue"
  ELSE IF e # ErrNil /\ e = ErrUnique THEN "continue"
  ELSE "send"

AddID ==
  /\ pc = "add"
  /\ \E fault \in AddFaults :
       LET r == addID(ledger, cur, fault) IN
         /\ ledger' = r.db
         /\ err' = r.err
         /\ log' = Append(log, Event("addID", fault, r.err))
         /\ addFailed' =
              IF r.err \notin {ErrNil, ErrUnique} /\ cur \notin Range(ledger)
                THEN addFailed \cup {cur} ELSE addFailed
         /\ CASE afterAdd(r.err) = "continue" -> Advance
              [] afterAdd(r.err) = "break"    -> pc' = "wait" /\ idx' = idx
              [] OTHER                        -> pc' = "send" /\ idx' = idx
  /\ UNCHANGED <<hostString, p>>
  /\ UNCHANGED fetchVars
  /\ UNCHANGED history
  /\ UNCHANGED ok

\* err = id.send(hostString); a failure is logged and the loop goes on
SendStep(o) ==
  /\ pc = "send"
  /\ LET r == send(hostString, o) IN
       /\ sends' = [sends EXCEPT ![cur] = Inc(@)]
       /\ IF r.panic
            THEN /\ pc' = "panicPost"
                 /\ idx' = idx
                 /\ log' = Append(log, Event("send", o, "panic"))
                 /\ UNCHANGED <<err, delivered, sendFailed>>
            ELSE /\ err' = r.err
                 /\ log' = Append(log, Event("send", o, r.err))
                 /\ delivered' = IF r.err = ErrNil THEN delivered \cup {cur} ELSE delivered
                 /\ sendFailed' =
                      IF r.err # ErrNil /\ cur \in Range(ledger)
                        THEN sendFailed \cup {cur} ELSE sendFailed
                 /\ Advance
  /\ addFailed' = addFailed \ {cur}
  /\ UNCHANGED <<ledger, hostString, p, ok>>
  /\ UNCHANGED fetchVars

Send == \E o \in SendOutcomes : SendStep(o)

Next ==
  \/ Open
  \/ MakeTables
  \/ GetEnv
  \/ Tick
  \/ Attempt
  \/ LoopExit
  \/ FinishGetDaily
  \/ Dispatch
  \/ CheckID
  \/ AddID
  \/ Send

Spec == Init /\ [][Next]_vars

\* the process keeps running: the ticker keeps firing and every call returns
FairSpec == Spec /\ WF_vars(Next)

(* ----------------------------- properties ------------------------------ *)

Last(s) == s[Len(s)]

\* positions of the log that hold a call op on the id x
Calls(op, x) == {k \in 1..Len(log) : log[k].op = op /\ log[k].id = x}

\* C1: the ledger never holds two rows with the same paste id.  An addID on
\* an id that is no row, with no storage fault, adds exactly that one row
\* and returns nil; an addID on an id that is a row leaves the ledger as it
\* is and never returns nil, and with no storage fault it returns the UNIQUE
\* (duplicate) error.
C1_LedgerIdsUnique ==
  [][/\ NoDup(ledger) /\ NoDup(ledger')
     /\ pc = "add" =>
          LET x == cur
              e == Last(log')
          IN /\ x \in Range(ledger) =>
                  /\ ledger' = ledger
                  /\ err' # ErrNil
                  /\ e.env \in {"none", "commit"} => err' = ErrUnique
             /\ x \notin Range(ledger) /\ e.env = "none" =>
                  ledger' = Append(ledger, x) /\ err' = ErrNil
             /\ ledger' \in {ledger, Append(ledger, x)}
     /\ pc # "add" => ledger' = ledger]_vars

\* C1 witness: an id recorded and delivered in this run has met a later
\* addID, which reported the duplicate
C1_Witness ==
  \E x \in delivered :
    /\ x \in Range(ledger)
    /\ \E k \in Calls("addID", x) : log[k].had /\ log[k].err = ErrUnique

\* C2: send is invoked at most once per identifier over the whole run
C2_SendAtMostOncePerId == \A x \in Ids : sends[x] <= 1

\* C3: a failed send leaves the ledger as it is, and an id whose send failed
\* after its insert was stored stays a row of the ledger, is never inserted
\* again (a later addID on it changes nothing and returns an error) and is
\* never handed to send again.
C3_FailedSendStaysSeen ==
  [][/\ pc = "send" => ledger' = ledger
     /\ \A x \in sendFailed' :
          /\ x \in Range(ledger')
          /\ ~(pc' = "send" /\ cur' = x)
          /\ x \in sendFailed /\ pc = "add" /\ cur = x =>
               ledger' = ledger /\ err' # ErrNil]_vars

\* C3 witness: the send of x failed in an earlier cycle, and in the current
\* cycle x came again and was turned away as a duplicate without a send
C3_Witness ==
  \E x \in sendFailed :
    /\ Calls("send", x) = {}
    /\ \E k \in Calls("addID", x) : log[k].err = ErrUnique
    /\ pc = "wait"

\* getDaily has just returned a batch that holds the id x
Reported(x) ==
  /\ pc = "returned"
  /\ err = ErrNil
  /\ \E k \in 1..Len(p.Data) : p.Data[k].ID = x

\* the last call of the cycle so far is a send that failed
SendJustFailed ==
  Len(log) > 0 /\ Last(log).op = "send" /\ Last(log).err # ErrNil

\* the insert of x is stored and x is about to be handed to send
JustRecorded(x) == pc = "send" /\ cur = x /\ x \in Range(ledger)

\* C4 (at-least-once, as the specification words it): if the feed keeps reporting x and from some
\* point on no send fails, every newly recorded x is eventually delivered
C4_AtLeastOnce ==
  \A x \in Ids :
    ([]<>Reported(x) /\ <>[]~SendJustFailed)
      => [](JustRecorded(x) => <>(x \in delivered))

\* C4 as amended (one attempt): an id whose send failed after its insert
\* was stored is never delivered afterwards, and the delivery state of an id
\* that is a row of the ledger changes only in the send of the iteration that
\* inserted it.
C4_SingleAttempt ==
  [][/\ \A x \in sendFailed \ delivered : x \notin delivered'
     /\ \A x \in Range(ledger) :
          ~(pc = "send" /\ cur = x) => (x \in delivered' <=> x \in delivered)]_vars

\* C4 witness: the send of x failed in an earlier cycle and x is still not
\* delivered, although the current cycle reported x again and delivered
\* another id
C4_Witness ==
  \E x \in sendFailed \ delivered :
    /\ Calls("send", x) = {}
    /\ Calls("addID", x) # {}
    /\ \E k \in 1..Len(log) : log[k].op = "send" /\ log[k].err = ErrNil /\ log[k].id # x

\* no checkID or addID of the cycle so far met a storage fault
NoLedgerFault ==
  \A k \in 1..Len(log) : log[k].op \in {"checkID", "addID"} => log[k].env = "none"

\* positions of the log that hold a call op on the candidate at position i
CallsAt(op, i) == {k \in 1..Len(log) : log[k].op = op /\ log[k].i = i}

\* C5: in a cycle with a fetched batch and no ledger fault, every candidate
\* whose id was no row when its checkID ran is inserted next (its addID
\* returns nil and the id is a row from then on) and then handed to send,
\* exactly once in the cycle; and when such a cycle ends every candidate of
\* the batch has been reached.
C5_NewCandidateRecordedThenSentOnce ==
  NoLedgerFault =>
    /\ \A k \in 1..Len(log) :
         (log[k].op = "checkID" /\ ~log[k].had) =>
           LET i == log[k].i
               x == log[k].id
           IN \/ pc = "add" /\ idx = i
              \/ /\ x \in Range(ledger)
                 /\ \E ka \in CallsAt("addID", i) :
                      /\ log[ka].err = ErrNil
                      /\ ka > k
                      /\ \A ks \in Calls("send", x) : ks > ka /\ log[ks].i = i
                 /\ Cardinality(Calls("send", x)) = IF pc = "send" /\ idx = i THEN 0 ELSE 1
    /\ (pc = "wait" /\ Len(log) > 0) =>
         \A i \in 1..Len(p.Data) : CallsAt("checkID", i) # {}

\* C5 witness: a cycle without ledger fault has ended in which two new ids
\* were each inserted and handed to send
C5_Witness ==
  /\ pc = "wait"
  /\ NoLedgerFault
  /\ \E k1, k2 \in 1..Len(log) :
       /\ log[k1].op = "checkID" /\ ~log[k1].had
       /\ log[k2].op = "checkID" /\ ~log[k2].had
       /\ log[k1].id # log[k2].id
       /\ {log[k1].id, log[k2].id} \subseteq Range(ledger)
       /\ Calls("send", log[k1].id) # {} /\ Calls("send", log[k2].id) # {}

\* no checkID of the cycle so far met a storage fault
NoLookupFault ==
  \A k \in 1..Len(log) : log[k].op = "checkID" => log[k].env = "none"

\* C6: an addID that returns an error (hard or duplicate) does not stop the
\* batch: the step goes on to checkID of the next candidate of the same
\* batch, or ends the cycle after the last one; and a cycle without lookup
\* fault ends with every candidate checked and handed to addID, and handed
\* to send when its addID returned nil, whatever the earlier addID errors.
C6_InsertErrorDoesNotStopBatch ==
  [][/\ (pc = "add" /\ err' # ErrNil) =>
          /\ p' = p
          /\ IF idx < Len(p.Data)
               THEN pc' = "check" /\ idx' = idx + 1
               ELSE pc' = "wait"
     /\ (pc' = "wait" /\ Len(log') > 0 /\ NoLookupFault') =>
          \A i \in 1..Len(p'.Data) :
            /\ CallsAt("checkID", i)' # {}
            /\ CallsAt("addID", i)' # {}
            /\ \A ka \in CallsAt("addID", i)' :
                 log'[ka].err = ErrNil => CallsAt("send", i)' # {}]_vars

\* C6 witness: a cycle has ended in which the insert of one candidate failed
\* with a hard error and the candidate after it was inserted and sent
C6_Witness ==
  /\ pc = "wait"
  /\ \E k1, k2 \in 1..Len(log) :
       /\ log[k1].op = "addID" /\ log[k1].err = ErrIO
       /\ log[k2].op = "send" /\ log[k2].err = ErrNil
       /\ log[k2].i > log[k1].i
       /\ log[k2].had

\* C7: a checkID that returns an error skips that candidate only: the next
\* candidate of the batch is checked in the same cycle
C7_LookupErrorSkipsOneCandidate ==
  [][(pc = "check" /\ err' # ErrNil /\ idx < Len(p.Data)) =>
       pc' = "check" /\ idx' = idx + 1 /\ p' = p]_vars

\* C8: when all three attempts fail, getDaily has sent three requests and
\* returns an error to main
C8_RetryExhaustionReturnsError ==
  retries = MaxRetries =>
    /\ reqs = MaxRetries
    /\ pc \in {"fetch", "read", "returned"}
    /\ pc = "returned" => err # ErrNil

\* C9: no failure inside a cycle ends the scheduler: getDaily always returns
\* to main, a failed fetch goes back to the ticker with the ledger and the
\* forwards untouched, every step of the batch stays inside the loop, and
\* the ticker always starts the next cycle
C9_SchedulerNeverTerminates ==
  [][/\ pc = "read" => pc' = "returned"
     /\ (pc = "returned" /\ err # ErrNil) =>
          pc' = "wait" /\ ledger' = ledger /\ sends' = sends /\ log' = <<>>
     /\ pc \in {"check", "add", "send"} => pc' \in {"check", "add", "send", "wait"}
     /\ pc = "wait" => pc' = "fetch"]_vars

\* the upstream body [[]]
EmptyDay == JArr(<<JArr(<<>>)>>)

\* C10: for the body [[]] getDaily returns an empty batch and a nil error,
\* and main goes back to the ticker without an addID or a send
C10_EmptyDay ==
  [][(pc = "returned" /\ body = EmptyDay) =>
       /\ err = ErrNil
       /\ p = EmptyPastes
       /\ pc' = "wait"
       /\ ledger' = ledger
       /\ sends' = sends
       /\ log' = <<>>]_vars

\* C10 witness: getDaily has returned from reading the body [[]]
C10_Witness == pc = "returned" /\ body = EmptyDay /\ p = EmptyPastes

\* the body is an outer array of exactly one inner array of objects
WellFormed(b) == b.t = "arr" /\ Len(b.v) = 1 /\ b.v[1].t = "arr"

\* the ID struct holds what the JSON object o holds
SameRecord(d, o) ==
  /\ d.ID = o.id
  /\ d.Date = o.date
  /\ d.Tags = IF "tags" \in DOMAIN o THEN o.tags ELSE ""

\* C11: for a well-formed body [[o1, ..., on]] getDaily returns a nil error
\* and p.Data holds exactly o1, ..., on: same length, same records, same order
C11_ReturnsInnerSequence ==
  (pc = "returned" /\ WellFormed(body)) =>
    /\ err = ErrNil
    /\ p # NilPastes
    /\ Len(p.Data) = Len(body.v[1].v)
    /\ \A k \in 1..Len(body.v[1].v) : SameRecord(p.Data[k], body.v[1].v[k])

\* C11 witness: getDaily has returned from a body of two different records
C11_Witness ==
  /\ pc = "returned"
  /\ WellFormed(body)
  /\ Len(body.v[1].v) = 2
  /\ body.v[1].v[1].id # body.v[1].v[2].id
  /\ Len(p.Data) = 2

InBatch == {"check", "add", "send"}
InFetch == {"fetch", "read", "returned"}

\* the calls of the cycle so far are in feed order: candidate 1 first, for
\* each candidate checkID, then addID, then send, each at most once, and the
\* next candidate only after the last call on the one before
FeedOrder ==
  /\ Len(log) > 0 => log[1].i = 1 /\ log[1].op = "checkID"
  /\ \A k \in 1..Len(log) : log[k].id = p.Data[log[k].i].ID
  /\ \A k \in 1..(Len(log) - 1) :
       LET a == log[k]
           b == log[k + 1]
       IN \/ b.i = a.i /\ <<a.op, b.op>> \in {<<"checkID", "addID">>, <<"addID", "send">>}
          \/ b.i = a.i + 1 /\ a.op \in {"addID", "send"} /\ b.op = "checkID"
  /\ pc \in InBatch => idx = IF pc = "check" THEN Cardinality({log[k].i : k \in 1..Len(log)}) + 1
                             ELSE Last(log).i

\* C12: inserts and forwards happen in feed order and cycles never overlap:
\* within a batch the calls follow FeedOrder; while getDaily runs no ledger
\* or forwarder call of the cycle has been made; while the batch is worked
\* on no request is in flight; and a fetch starts only from the ticker wait,
\* when the batch before it has ended.
C12_SequentialInFeedOrder ==
  [][/\ FeedOrder /\ FeedOrder'
     /\ pc' \in InFetch => log' = <<>>
     /\ pc' \in InBatch => reqs' = 0 /\ res' = NilRes
     /\ (pc' = "fetch" /\ pc # "fetch") => pc = "wait"
     /\ (pc \in InBatch /\ pc' \in InBatch) => p' = p /\ idx' \in {idx, idx + 1}
     /\ pc \in InBatch => pc' \in InBatch \cup {"wait", "panicPost"}]_vars

\* C12 witness: a cycle has ended in which two candidates each went through
\* checkID, addID and send
C12_Witness ==
  /\ pc = "wait"
  /\ Len(log) = 6
  /\ log[3].op = "send" /\ log[3].i = 1
  /\ log[4].op = "checkID" /\ log[4].i = 2

\* the process has ended
Terminated == pc \in {"fatal", "panicMakeTables", "panicGetDaily", "panicPost"}

\* C13: the process ends on its own only at startup (schema creation failed
\* or DG_HOST absent), and then no request was sent, no addID or send was
\* called and no batch was fetched
C13_TerminatesOnlyAtStartup ==
  Terminated =>
    /\ pc \in {"fatal", "panicMakeTables"}
    /\ hostString = ""
    /\ reqs = 0
    /\ p = NilPastes
    /\ log = <<>>
    /\ \A x \in Ids : sends[x] = 0

\* the body cannot be decoded into [][]ID: it is no JSON, or an object stands
\* where an array is expected
Undecodable(b) ==
  \/ b.t \in {"garbage", "obj"}
  \/ b.t = "arr" /\ \E k \in 1..Len(b.v) : b.v[k].t = "obj"

\* C14: a body that does not decode into [][]ID makes getDaily return an
\* error; reading and decoding sends no request and never goes back into the
\* retry loop; and main skips the cycle: back to the ticker, no addID, no send
C14_UndecodableBodyIsNotRetried ==
  [][/\ pc = "read" => reqs' = reqs /\ pc' # "fetch"
     /\ (pc = "returned" /\ Undecodable(body)) =>
          /\ err # ErrNil
          /\ pc' = "wait"
          /\ ledger' = ledger
          /\ sends' = sends
          /\ log' = <<>>]_vars

\* C14 witness: getDaily has returned an error for a body that is no JSON,
\* after one request
C14_Witness ==
  pc = "returned" /\ body = JGarbage /\ err = ErrJSON /\ reqs = 1

\* C15: the ledger write comes before the delivery: an id is handed to send
\* only when the addID of the same iteration returned nil, and every id that
\* was handed to send, or is about to be, is a row of the ledger
C15_RecordedBeforeForwarded ==
  /\ pc = "send" => err = ErrNil /\ Last(log).op = "addID" /\ Last(log).i = idx
  /\ pc = "send" => cur \in Range(ledger)
  /\ \A x \in Ids : sends[x] > 0 => x \in Range(ledger)

\* C16: the ledger is append-only: every step keeps the rows it finds, in
\* their places, and can only add rows after them
C16_AppendOnly ==
  [][/\ Len(ledger') >= Len(ledger)
     /\ \A i \in 1..Len(ledger) : i <= Len(ledger') /\ ledger'[i] = ledger[i]
     /\ Range(ledger) \subseteq Range(ledger')]_vars

\* C16 witness: a row left by an earlier run is still in its place after an
\* addID on its id and after a new id was added behind it
C16_Witness ==
  /\ Len(ledger) = 2
  /\ \E k1, k2 \in 1..Len(log) :
       /\ log[k1].op = "addID" /\ log[k1].id = ledger[1] /\ log[k1].had
       /\ log[k2].op = "addID" /\ log[k2].id = ledger[2] /\ ~log[k2].had
       /\ log[k2].err = ErrNil

\* what sends the loop round again: an error from client.Do or a 502
Retryable(r, e) == e # ErrNil \/ (r # NilRes /\ r.StatusCode = BadGateway)

\* C17: one getDaily call makes between 1 and MaxRetries requests; a further
\* request follows only a transport failure or a 502; the loop stops at the
\* first response that is neither; the response the loop ends with is the one
\* that is read and parsed
C17_BoundedRetry ==
  [][/\ (pc = "fetch" /\ reqs >= 1) => Retryable(res, err)
     /\ (pc = "fetch" /\ pc' = "fetch") =>
          /\ reqs' = reqs + 1 /\ reqs' <= MaxRetries
          /\ Retryable(res', err')
     /\ (pc = "fetch" /\ pc' = "read") =>
          \/ /\ reqs' = reqs + 1 /\ reqs' \in 1..MaxRetries
             /\ ~Retryable(res', err')
          \/ /\ reqs' = reqs /\ reqs = MaxRetries /\ res' = res
     /\ pc = "fetch" => pc' \in {"fetch", "read"}
     /\ pc = "read" =>
          /\ reqs \in 1..MaxRetries
          /\ reqs' = reqs /\ res' = res
          /\ pc' \in {"returned", "panicGetDaily"}
          /\ body' # NoBody => res # NilRes /\ ~res.closed]_vars

\* C17 witness: the third request is answered with a response that is
\* neither a failure nor a 502, after two that were
C17_Witness ==
  pc = "read" /\ reqs = MaxRetries /\ res = Response(StatusOK, FALSE) /\ err = ErrNil

\* C18: without a storage fault checkID returns true for an id that is a row
\* of the ledger and false for one that is not
C18_CheckIDReportsMembership ==
  [][(pc = "check" /\ Last(log').env = "none") =>
       /\ err' = ErrNil
       /\ ok' = (cur \in Range(ledger))]_vars

\* C19: only an addID that returns nil changes the ledger, and it adds the
\* id it was given and nothing else; every other step, and an addID that
\* returns an error, leaves the ledger as it is
C19_OnlySuccessfulInsertWrites ==
  [][/\ pc # "add" => ledger' = ledger
     /\ (pc = "add" /\ err' # ErrNil) => ledger' = ledger
     /\ (pc = "add" /\ err' = ErrNil) => ledger' = Append(ledger, cur)]_vars

\* the addID events of this cycle that ended in a hard error
HardFailed(k) ==
  /\ log[k].op = "addID"
  /\ log[k].err \notin {ErrNil, ErrUnique}

====
